---- MODULE Spec2Model ----
(***************************************************************************)
(* Model of toml_sort (src/src/lib.rs): the formatting engine that sorts   *)
(* the keys of a TOML tree and normalises its decor.                       *)
(*                                                                         *)
(* Strings are sequences of byte values, so that starts_with, trim, find   *)
(* and the lexicographic comparison of keys are computed as the code       *)
(* computes them.  An Option<&str> is a sequence of length 0 (None) or 1   *)
(* (Some(s)).  A tree node is a record with a "kind" field.                *)
(***************************************************************************)
EXTENDS Integers, Sequences, FiniteSets, Bags, TLC

(* config : the Config read by main; input : the tree handed to the        *)
(* formatting function; last : its `last` argument; output : the tree it   *)
(* returned; pc : "parsed" before the first run, "formatted" after it,     *)
(* "reformatted" after a run on the first run's output.                    *)
VARIABLES config, input, output, last, pc

vars == <<config, input, output, last, pc>>

----------------------------------------------------------------------------
(* Characters the code names.                                              *)

NL == 10
TAB == 9
SP == 32
SQ == 39
DQ == 34
BS == 92

(* char::is_whitespace restricted to ASCII, as str::trim uses it.          *)
WhiteSpace == {9, 10, 11, 12, 13, 32}

(* The pattern &[' ', '\t', '\n'][..] of format_array.                     *)
ArrayTrimChars == {SP, TAB, NL}

(* The pattern &['\\', '"'][..] of format_value.                           *)
EscapeChars == {BS, DQ}

----------------------------------------------------------------------------
(* Option and str helpers.                                                 *)

None == <<>>
Some(s) == <<s>>
IsSome(o) == Len(o) = 1
Unwrap(o) == o[1]
UnwrapOr(o, d) == IF IsSome(o) THEN o[1] ELSE d

StartsWith(s, p) == Len(s) >= Len(p) /\ SubSeq(s, 1, Len(p)) = p
EndsWith(s, p) == Len(s) >= Len(p) /\ SubSeq(s, Len(s) - Len(p) + 1, Len(s)) = p
IsEmpty(s) == Len(s) = 0

(* str::find(&[chars]) : Some(_) iff one of the chars occurs.              *)
FindAny(s, chars) == \E i \in 1..Len(s) : s[i] \in chars

(* str::trim_start_matches / trim_end_matches / trim_matches / trim.       *)
RECURSIVE TrimStartMatches(_, _)
TrimStartMatches(s, chars) ==
    IF Len(s) > 0 /\ s[1] \in chars THEN TrimStartMatches(Tail(s), chars) ELSE s

RECURSIVE TrimEndMatches(_, _)
TrimEndMatches(s, chars) ==
    IF Len(s) > 0 /\ s[Len(s)] \in chars
    THEN TrimEndMatches(SubSeq(s, 1, Len(s) - 1), chars)
    ELSE s

TrimMatches(s, chars) == TrimEndMatches(TrimStartMatches(s, chars), chars)

Trim(s) == TrimMatches(s, WhiteSpace)

(* str::strip_prefix / strip_suffix followed by `if let Some(s)`.          *)
StripPrefix(s, p) == IF StartsWith(s, p) THEN SubSeq(s, Len(p) + 1, Len(s)) ELSE s
StripSuffix(s, p) == IF EndsWith(s, p) THEN SubSeq(s, 1, Len(s) - Len(p)) ELSE s

(* Ord for str: lexicographic comparison of the bytes.                     *)
RECURSIVE StrCmp(_, _)
StrCmp(x, y) ==
    IF Len(x) = 0 /\ Len(y) = 0 THEN "Equal"
    ELSE IF Len(x) = 0 THEN "Less"
    ELSE IF Len(y) = 0 THEN "Greater"
    ELSE IF x[1] < y[1] THEN "Less"
    ELSE IF x[1] > y[1] THEN "Greater"
    ELSE StrCmp(Tail(x), Tail(y))

(* Ord for usize.                                                          *)
NumCmp(x, y) == IF x < y THEN "Less" ELSE IF x > y THEN "Greater" ELSE "Equal"

----------------------------------------------------------------------------
(* Decor and values.                                                       *)

DefaultDecor == [prefix |-> None, suffix |-> None]
NewDecor(p, s) == [prefix |-> Some(p), suffix |-> Some(s)]

IsScalar(v) == v.kind \in {"String", "Integer", "Boolean"}

(* Value::decorated(prefix, suffix).                                       *)
Decorated(v, p, s) == [v EXCEPT !.decor = NewDecor(p, s)]

(* v.clone().decorated("", "").to_string() : the text of a scalar.         *)
Display(v) == v.repr

(* The escaping of a basic string.                                         *)
RECURSIVE Escape(_)
Escape(s) ==
    IF Len(s) = 0 THEN <<>>
    ELSE (IF s[1] \in EscapeChars THEN <<BS, s[1]>> ELSE <<s[1]>>) \o Escape(Tail(s))

(* impl From<String> for Value : a string value with the default repr.     *)
FromString(s) ==
    [kind |-> "String", value |-> s, repr |-> <<DQ>> \o Escape(s) \o <<DQ>>,
     decor |-> DefaultDecor]

----------------------------------------------------------------------------
(* Config and ProcessedConfig.                                             *)

(* The BTreeMap built by `for (i, key) in list.iter().enumerate() {        *)
(* map.insert(key.clone(), i) }` : a later occurrence overwrites.          *)
BuildIndex(list) ==
    [k \in {list[i] : i \in DOMAIN list} |->
        (CHOOSE i \in DOMAIN list :
            list[i] = k /\ \A j \in DOMAIN list : list[j] = k => j <= i) - 1]

FromConfig(x) ==
    [keys |-> BuildIndex(x.keys),
     inline_keys |-> BuildIndex(x.inline_keys),
     sort_string_arrays |-> x.sort_string_arrays]

(* BTreeMap::get.                                                          *)
Get(map, key) == IF key \in DOMAIN map THEN Some(map[key]) ELSE None

----------------------------------------------------------------------------
(* The `sort` closures of format_table and format_inline_table.            *)

sort_NoPriority(ord, x, y) == StrCmp(x.key, y.key)

sort(ord, x, y) ==
    LET xord == Get(ord, x.key)
        yord == Get(ord, y.key)
    IN  IF IsSome(xord) /\ ~IsSome(yord) THEN "Less"
        ELSE IF ~IsSome(xord) /\ IsSome(yord) THEN "Greater"
        ELSE IF IsSome(xord) /\ IsSome(yord) THEN NumCmp(Unwrap(xord), Unwrap(yord))
        ELSE StrCmp(x.key, y.key)

(* The index each closure reads.                                           *)
TableOrd(cfg) == cfg.keys

InlineOrd_TableKeys(cfg) == cfg.keys

InlineOrd(cfg) == cfg.inline_keys

(* Vec::sort_by, a stable sort, on entries.                                *)
RECURSIVE InsertEntry(_, _, _)
InsertEntry(ord, sorted, e) ==
    IF Len(sorted) = 0 THEN <<e>>
    ELSE IF sort(ord, e, Head(sorted)) = "Less" THEN <<e>> \o sorted
    ELSE <<Head(sorted)>> \o InsertEntry(ord, Tail(sorted), e)

RECURSIVE SortEntries(_, _)
SortEntries(ord, s) ==
    IF Len(s) = 0 THEN <<>>
    ELSE InsertEntry(ord, SortEntries(ord, SubSeq(s, 1, Len(s) - 1)), s[Len(s)])

(* The comparison closure of format_array.                                 *)
ArrayOrdering_ByKind(x, y) ==
    IF x.kind = "String" /\ y.kind = "String" THEN "Equal"
    ELSE IF x.kind = "String" THEN "Less"
    ELSE IF y.kind = "String" THEN "Greater"
    ELSE "Equal"

ArrayOrdering(x, y) ==
    IF x.kind = "String" /\ y.kind = "String" THEN StrCmp(x.value, y.value)
    ELSE IF x.kind = "String" THEN "Less"
    ELSE IF y.kind = "String" THEN "Greater"
    ELSE "Equal"

(* Vec::sort_by on the elements of an array.                               *)
RECURSIVE InsertValue(_, _)
InsertValue(sorted, v) ==
    IF Len(sorted) = 0 THEN <<v>>
    ELSE IF ArrayOrdering(v, Head(sorted)) = "Less" THEN <<v>> \o sorted
    ELSE <<Head(sorted)>> \o InsertValue(Tail(sorted), v)

RECURSIVE SortValues(_)
SortValues(s) ==
    IF Len(s) = 0 THEN <<>>
    ELSE InsertValue(SortValues(SubSeq(s, 1, Len(s) - 1)), s[Len(s)])

----------------------------------------------------------------------------
(* format_value, scalar branch.                                            *)

(* "Keep existing prefix/suffix with correct format."                      *)
KeptDecor_Untrimmed(o) ==
    LET t == UnwrapOr(o, <<>>)
    IN  IF IsEmpty(t) THEN t ELSE <<SP>> \o t

KeptDecor(o) ==
    LET t == Trim(UnwrapOr(o, <<>>))
    IN  IF IsEmpty(t) THEN t ELSE <<SP>> \o t

(* The condition under which '...' is converted to "...".                  *)
NeedsRequote_AnyQuoted(display) == StartsWith(display, <<SQ>>)

NeedsRequote(display) ==
    /\ StartsWith(display, <<SQ>>)
    /\ ~StartsWith(display, <<SQ, SQ>>)
    /\ ~FindAny(display, EscapeChars)

Requote(v) ==
    LET display == Display(v)
    IN  IF NeedsRequote(display)
        THEN FromString(StripSuffix(StripPrefix(display, <<SQ>>), <<SQ>>))
        ELSE v

FormatScalar(v, lst) ==
    LET prefix == KeptDecor(v.decor.prefix)
        suffix == KeptDecor(v.decor.suffix)
    IN  IF lst
        THEN Decorated(Requote(v), prefix \o <<SP>>, suffix \o <<SP>>)
        ELSE Decorated(Requote(v), prefix \o <<SP>>, suffix)

----------------------------------------------------------------------------
(* format_array helpers.                                                   *)

IsMultiline_Never(array) == FALSE

IsMultiline(array) == StartsWith(array.trailing, <<NL>>)

MultilinePrefix(v) ==
    LET p == TrimMatches(UnwrapOr(v.decor.prefix, <<>>), ArrayTrimChars)
    IN  IF ~IsEmpty(p) THEN <<NL, TAB>> \o p \o <<NL, TAB>> ELSE <<NL, TAB>>

MultilineSuffix(v) == TrimMatches(UnwrapOr(v.decor.suffix, <<>>), ArrayTrimChars)

----------------------------------------------------------------------------
(* format_table helpers.                                                   *)

(* Table::insert / InlineTable::insert followed by the assignment to       *)
(* key_decor_mut: a new key is appended, an existing one is overwritten.   *)
InsertItem(items, e) ==
    IF \E i \in DOMAIN items : items[i].key = e.key
    THEN [i \in DOMAIN items |-> IF items[i].key = e.key THEN e ELSE items[i]]
    ELSE Append(items, e)

RECURSIVE InsertAll(_, _)
InsertAll(items, es) ==
    IF Len(es) = 0 THEN items ELSE InsertAll(InsertItem(items, Head(es)), Tail(es))

(* "First entry can be decored (prefix)": i is the 0-based index.          *)
OpensFirstSection(i, key_decor) ==
    i = 0 /\ IsSome(key_decor.prefix) /\ ~IsEmpty(Unwrap(key_decor.prefix))

(* "Later entries can contain a new-line prefix decor."                    *)
OpensNewSection_Never(i, key_decor) == FALSE

OpensNewSection(i, key_decor) ==
    i # 0 /\ IsSome(key_decor.prefix) /\ StartsWith(Unwrap(key_decor.prefix), <<NL>>)

(* "Add section prefix." on the entry at 0-based position i of the sorted  *)
(* section.                                                                *)
AddSectionPrefix_Skip(i, section_decor, entry) == entry

AddSectionPrefix(i, section_decor, entry) ==
    IF i = 0 /\ IsSome(section_decor.prefix)
    THEN [entry EXCEPT !.decor.prefix = section_decor.prefix]
    ELSE entry

(* "Sort keys and insert them."                                            *)
Flush(cfg, st) ==
    LET sorted == SortEntries(TableOrd(cfg), st.section)
    IN  InsertAll(st.out,
            [i \in DOMAIN sorted |-> AddSectionPrefix(i - 1, st.section_decor, sorted[i])])

(* "Remove any trailing newline in decor suffix."                          *)
TrimKeySuffix(key_decor) ==
    IF IsSome(key_decor.suffix)
    THEN [key_decor EXCEPT !.suffix = Some(TrimEndMatches(Unwrap(key_decor.suffix), {NL}))]
    ELSE key_decor

----------------------------------------------------------------------------
(* The four formatting functions.                                          *)

RECURSIVE format_value(_, _, _)
RECURSIVE format_array(_, _, _)
RECURSIVE format_inline_table(_, _, _)
RECURSIVE format_table(_, _)
RECURSIVE TableLoop(_, _, _, _)

format_value(cfg, value, lst) ==
    IF value.kind = "Array" THEN format_array(cfg, value, lst)
    ELSE IF value.kind = "InlineTable" THEN format_inline_table(cfg, value, lst)
    ELSE FormatScalar(value, lst)

format_array(cfg, array, lst) ==
    LET values == IF cfg.sort_string_arrays THEN SortValues(array.values)
                  ELSE array.values
        len == Len(values)
        decor == NewDecor(<<SP>>, IF lst THEN <<SP>> ELSE <<>>)
    IN  IF IsMultiline(array)
        THEN [kind |-> "Array",
              values |-> [i \in DOMAIN values |->
                  Decorated(format_value(cfg, values[i], FALSE),
                            MultilinePrefix(values[i]), MultilineSuffix(values[i]))],
              trailing |-> array.trailing,
              trailing_comma |-> TRUE,
              decor |-> decor]
        ELSE [kind |-> "Array",
              values |-> [i \in DOMAIN values |-> format_value(cfg, values[i], i = len)],
              trailing |-> <<>>,
              trailing_comma |-> FALSE,
              decor |-> decor]

format_inline_table(cfg, table, lst) ==
    LET entries == [i \in DOMAIN table.items |->
                       [key |-> table.items[i].key,
                        value |-> table.items[i].value,
                        decor |-> NewDecor(<<SP>>, <<SP>>)]]
        sorted == SortEntries(InlineOrd(cfg), entries)
        len == Len(sorted)
    IN  [kind |-> "InlineTable",
         items |-> InsertAll(<<>>,
             [i \in DOMAIN sorted |->
                 [sorted[i] EXCEPT !.value = format_value(cfg, sorted[i].value, i = len)]]),
         decor |-> IF lst THEN [prefix |-> None, suffix |-> Some(<<SP>>)]
                   ELSE DefaultDecor]

(* One iteration of `for (i, (key, item)) in table.iter().enumerate()`,    *)
(* n = i + 1, and the iterations after it.                                 *)
TableLoop(cfg, items, n, st) ==
    IF n > Len(items) THEN st
    ELSE
      LET i == n - 1
          item == items[n].value
          key_decor == items[n].decor
          opens == OpensFirstSection(i, key_decor) \/ OpensNewSection(i, key_decor)
          kd1 == IF opens THEN [key_decor EXCEPT !.prefix = Some(<<>>)] ELSE key_decor
          kd2 == TrimKeySuffix(kd1)
          new_item == IF item.kind = "None" THEN item
                      ELSE IF item.kind = "Table" THEN format_table(cfg, item)
                      ELSE IF item.kind = "ArrayOfTables" THEN item
                      ELSE format_value(cfg, item, FALSE)
          entry == [key |-> items[n].key, value |-> new_item, decor |-> kd2]
          st1 == IF OpensFirstSection(i, key_decor)
                 THEN [st EXCEPT !.section_decor.prefix = key_decor.prefix]
                 ELSE IF OpensNewSection(i, key_decor)
                 THEN [out |-> Flush(cfg, st),
                       section |-> <<>>,
                       section_decor |-> [DefaultDecor EXCEPT !.prefix = key_decor.prefix]]
                 ELSE st
      IN  TableLoop(cfg, items, n + 1, [st1 EXCEPT !.section = Append(@, entry)])

format_table(cfg, table) ==
    LET st == TableLoop(cfg, table.items, 1,
                  [out |-> <<>>, section |-> <<>>, section_decor |-> DefaultDecor])
    IN  [kind |-> "Table",
         implicit |-> TRUE,
         decor |-> NewDecor(UnwrapOr(table.decor.prefix, <<>>),
                            UnwrapOr(table.decor.suffix, <<>>)),
         items |-> Flush(cfg, st)]

----------------------------------------------------------------------------
(* Bounds of the input trees.                                              *)

MaxEntries == 3
MaxDocEntries == 2
MaxStrLen == 2
MaxArrayLen == 4
MaxInlineLen == 3

----------------------------------------------------------------------------
(* Input trees.                                                            *)

KeyA == <<97>>
KeyB == <<98>>
KeyZ == <<122>>
KeyAB == <<97, 98>>
Keys == {KeyA, KeyB, KeyZ, KeyAB}

(* Sequences of pairwise distinct keys, of length n.                       *)
KeySeqs(keys, n) ==
    {s \in [1..n -> keys] : \A i, j \in 1..n : i # j => s[i] # s[j]}

Integer(repr) == [kind |-> "Integer", value |-> repr, repr |-> repr, decor |-> DefaultDecor]
Boolean(repr) == [kind |-> "Boolean", value |-> repr, repr |-> repr, decor |-> DefaultDecor]
Literal(c) == [kind |-> "String", value |-> c, repr |-> <<SQ>> \o c \o <<SQ>>,
               decor |-> DefaultDecor]
MultiLiteral(c) == [kind |-> "String", value |-> c,
                    repr |-> <<SQ, SQ, SQ>> \o c \o <<SQ, SQ, SQ>>, decor |-> DefaultDecor]
Basic(c) == [kind |-> "String", value |-> c, repr |-> <<DQ>> \o Escape(c) \o <<DQ>>,
             decor |-> DefaultDecor]
WithDecor(v, p, s) == [v EXCEPT !.decor = [prefix |-> p, suffix |-> s]]

One == Integer(<<49>>)
Three == Integer(<<51>>)
True == Boolean(<<116, 114, 117, 101>>)
Apple == <<97, 112, 112, 108, 101>>
Banana == <<98, 97, 110, 97, 110, 97>>

(* Key prefixes: none, a blank line, a comment, a blank line then a        *)
(* comment, a comment then a blank line.                                   *)
KeyPrefixes ==
    {None, Some(<<NL>>), Some(<<35, 99, NL>>), Some(<<NL, 35, 100, NL>>),
     Some(<<35, 101, NL, NL>>)}

Entry(k, p, s, v) == [key |-> k, decor |-> [prefix |-> p, suffix |-> s], value |-> v]

Table(items) == [kind |-> "Table", implicit |-> FALSE, decor |-> DefaultDecor,
                 items |-> items]

(* A table of scalars, from its keys and their prefixes.                   *)
FlatTable(ks, ps) ==
    Table([i \in DOMAIN ks |-> Entry(ks[i], ps[i], Some(<<SP>>),
                                     WithDecor(One, Some(<<SP>>), Some(<<>>)))])

KeyLists == {<<>>, <<KeyB, KeyA>>, <<KeyZ, KeyB, KeyZ>>}

FlatConfigs ==
    {[keys |-> l, inline_keys |-> <<>>, sort_string_arrays |-> FALSE] : l \in KeyLists}

(* Tables of composite values.                                             *)
InlineTable(items) == [kind |-> "InlineTable", decor |-> DefaultDecor, items |-> items]
Array(values, trailing, comma) ==
    [kind |-> "Array", values |-> values, trailing |-> trailing,
     trailing_comma |-> comma, decor |-> DefaultDecor]

DocString == WithDecor(Literal(<<120>>), Some(<<SP, SP>>), Some(<<SP, 35, 99, SP>>))

DocInline ==
    WithDecor(InlineTable(<<Entry(KeyZ, Some(<<>>), Some(<<>>), WithDecor(One, None, None)),
                            Entry(KeyA, Some(<<SP, SP>>), Some(<<SP>>),
                                  WithDecor(Literal(<<113>>), Some(<<SP>>), Some(<<>>)))>>),
              Some(<<SP>>), Some(<<>>))

DocMultiArray ==
    WithDecor(Array(<<WithDecor(Literal(<<98>>), Some(<<NL, SP, SP, 35, 99, NL, SP, SP>>),
                                Some(<<SP>>)),
                      WithDecor(Three, Some(<<NL, SP, SP>>), Some(<<>>)),
                      WithDecor(Basic(<<97>>), Some(<<SP, 35, 100, 13, NL, SP, SP>>),
                                Some(<<>>)),
                      DocInline>>,
                    <<NL>>, FALSE),
              Some(<<SP, SP>>), Some(<<>>))

DocInlineArray ==
    WithDecor(Array(<<WithDecor(Three, Some(<<>>), Some(<<SP>>)),
                      WithDecor(Array(<<Literal(<<98>>), WithDecor(Basic(<<97>>),
                                        Some(<<SP, SP>>), Some(<<SP, SP>>))>>, <<SP>>, TRUE),
                                Some(<<SP>>), Some(<<SP>>))>>,
                    <<SP, 35, 116, NL>>, TRUE),
              Some(<<SP>>), Some(<<SP, 35, 115>>))

DocSubTable ==
    [kind |-> "Table", implicit |-> FALSE,
     decor |-> [prefix |-> Some(<<NL>>), suffix |-> None],
     items |-> <<Entry(KeyZ, Some(<<35, 115, NL>>), Some(<<SP>>),
                       WithDecor(One, Some(<<SP>>), Some(<<SP, 35, 122>>))),
                 Entry(KeyA, Some(<<35, 97, NL>>), Some(<<SP, NL>>),
                       WithDecor(Literal(<<121>>), Some(<<SP>>), Some(<<>>))),
                 Entry(KeyB, Some(<<NL, 35, 98, NL>>), Some(<<SP>>),
                       [kind |-> "ArrayOfTables",
                        tables |-> <<Table(<<Entry(KeyA, None, None, One)>>)>>]),
                 Entry(KeyAB, None, Some(<<SP>>), [kind |-> "None"])>>]

DocItems == {DocString, DocMultiArray, DocInlineArray, DocSubTable}

DocDecors ==
    {[prefix |-> None, suffix |-> None],
     [prefix |-> Some(<<35, 99, NL>>), suffix |-> Some(<<SP>>)],
     [prefix |-> Some(<<NL, 35, 100, NL>>), suffix |-> Some(<<SP, NL>>)]}

DocKeys == {KeyA, KeyB, KeyZ}

DocTable(ks, ds, vs) ==
    Table([i \in DOMAIN ks |-> [key |-> ks[i], decor |-> ds[i], value |-> vs[i]]])

DocConfigs ==
    {[keys |-> l[1], inline_keys |-> l[2], sort_string_arrays |-> b] :
        l \in {<<<<>>, <<KeyZ>>>>, <<<<KeyB, KeyA>>, <<>>>>}, b \in BOOLEAN}

----------------------------------------------------------------------------
(* process_file run on a document, and run again on what it wrote.         *)

(* Tables of scalars: every order of the keys, every key prefix.           *)
InitFlat ==
    /\ config \in FlatConfigs
    /\ \E n \in 0..MaxEntries :
         \E ks \in KeySeqs(Keys, n), ps \in [1..n -> KeyPrefixes] :
            input = FlatTable(ks, ps)

(* Tables of composite values.                                             *)
InitDoc ==
    /\ config \in DocConfigs
    /\ \E n \in 1..MaxDocEntries :
         \E ks \in KeySeqs(DocKeys, n), ds \in [1..n -> DocDecors],
            vs \in [1..n -> DocItems] :
            input = DocTable(ks, ds, vs)

Init ==
    /\ InitFlat \/ InitDoc
    /\ output = input
    /\ last = FALSE
    /\ pc = "parsed"

Next_pc == IF pc = "parsed" THEN "formatted" ELSE "reformatted"

process_file ==
    /\ pc # "reformatted"
    /\ input' = (IF pc = "parsed" THEN input ELSE output)
    /\ output' = format_table(FromConfig(config), input')
    /\ pc' = Next_pc
    /\ UNCHANGED <<config, last>>

Next == process_file

Spec == Init /\ [][Next]_vars

----------------------------------------------------------------------------
(* format_value on a scalar, and on the value it returned.                 *)

StrChars == {97, BS, DQ, SQ}

Contents == UNION {[1..n -> StrChars] : n \in 0..MaxStrLen}

(* The string values the grammar can produce with content c: a literal or  *)
(* multi-line literal string holds no single quote, a basic string holds   *)
(* anything, escaped.                                                      *)
Strings(c) ==
    {Basic(c)} \cup (IF FindAny(c, {SQ}) THEN {} ELSE {Literal(c), MultiLiteral(c)})

ValuePrefixes == {None, Some(<<SP>>), Some(<<SP, SP, 35, 99, SP, 13, NL, SP>>)}
ValueSuffixes == {None, Some(<<>>), Some(<<SP, 35, 115, SP>>)}

DefaultConfig == [keys |-> <<>>, inline_keys |-> <<>>, sort_string_arrays |-> FALSE]

InitValue ==
    /\ config = DefaultConfig
    /\ \E c \in Contents, p \in ValuePrefixes, s \in ValueSuffixes :
          \E v \in Strings(c) \cup {One, True} : input = WithDecor(v, p, s)
    /\ output = input
    /\ last \in BOOLEAN
    /\ pc = "parsed"

RunValue ==
    /\ pc # "reformatted"
    /\ input' = (IF pc = "parsed" THEN input ELSE output)
    /\ output' = format_value(FromConfig(config), input', last)
    /\ pc' = Next_pc
    /\ UNCHANGED <<config, last>>

SpecValue == InitValue /\ [][RunValue]_vars

----------------------------------------------------------------------------
(* format_array on an array, and on the array it returned.                 *)

ArrayElems ==
    {Basic(Banana),
     WithDecor(Literal(Apple), Some(<<NL, SP, SP, 35, 99, NL, SP, SP>>), Some(<<SP>>)),
     WithDecor(Three, Some(<<SP>>), Some(<<SP, 35, 116, NL>>)),
     True,
     WithDecor(Array(<<Literal(<<98>>), Basic(<<97>>)>>, <<>>, FALSE), Some(<<SP>>), None),
     DocInline}

(* Trailing trivia and trailing comma: `]`, `\n]`, `, # t\n]`,             *)
(* `,\n# t\n]`.                                                            *)
ArrayShapes ==
    {<<<<>>, FALSE>>, <<<<NL>>, FALSE>>, <<<<SP, 35, 116, NL>>, TRUE>>,
     <<<<NL, 35, 116, NL>>, TRUE>>}

InitArray ==
    /\ \E b \in BOOLEAN :
          config = [keys |-> <<>>, inline_keys |-> <<>>, sort_string_arrays |-> b]
    /\ \E n \in 0..MaxArrayLen :
          \E vs \in [1..n -> ArrayElems], sh \in ArrayShapes :
             input = Array(vs, sh[1], sh[2])
    /\ output = input
    /\ last \in BOOLEAN
    /\ pc = "parsed"

RunArray ==
    /\ pc # "reformatted"
    /\ input' = (IF pc = "parsed" THEN input ELSE output)
    /\ output' = format_array(FromConfig(config), input', last)
    /\ pc' = Next_pc
    /\ UNCHANGED <<config, last>>

SpecArray == InitArray /\ [][RunArray]_vars

----------------------------------------------------------------------------
(* format_inline_table on an inline table, and on the table it returned.   *)

InlineShapes ==
    {<<NewDecor(<<>>, <<>>), WithDecor(One, Some(<<>>), Some(<<>>))>>,
     <<NewDecor(<<SP, SP>>, <<SP>>), WithDecor(Literal(<<113>>), Some(<<SP>>), Some(<<SP>>))>>,
     <<NewDecor(<<SP>>, <<SP>>),
       WithDecor(Array(<<Three, Literal(<<98>>)>>, <<SP>>, FALSE), Some(<<SP>>), Some(<<>>))>>}

InlineConfigs ==
    {[keys |-> l[1], inline_keys |-> l[2], sort_string_arrays |-> FALSE] :
        l \in {<<<<>>, <<>>>>, <<<<KeyB, KeyA>>, <<>>>>, <<<<>>, <<KeyB, KeyA>>>>,
               <<<<KeyB, KeyA>>, <<KeyZ, KeyB, KeyZ>>>>}}

InitInline ==
    /\ config \in InlineConfigs
    /\ \E n \in 0..MaxInlineLen :
          \E ks \in KeySeqs(Keys, n), sh \in [1..n -> InlineShapes] :
             input = InlineTable([i \in 1..n |->
                        [key |-> ks[i], decor |-> sh[i][1], value |-> sh[i][2]]])
    /\ output = input
    /\ last \in BOOLEAN
    /\ pc = "parsed"

RunInline ==
    /\ pc # "reformatted"
    /\ input' = (IF pc = "parsed" THEN input ELSE output)
    /\ output' = format_inline_table(FromConfig(config), input', last)
    /\ pc' = Next_pc
    /\ UNCHANGED <<config, last>>

SpecInline == InitInline /\ [][RunInline]_vars

----------------------------------------------------------------------------
(* Vocabulary of the properties.                                           *)

Ran == pc # "parsed"

HasPrefix(e) == IsSome(e.decor.prefix) /\ ~IsEmpty(Unwrap(e.decor.prefix))
PrefixStartsWithNewline(e) ==
    IsSome(e.decor.prefix) /\ StartsWith(Unwrap(e.decor.prefix), <<NL>>)

(* The section of the entry at position n: one more than the number of     *)
(* non-first entries up to n whose prefix starts with a newline.  The      *)
(* output sections are the same runs of positions.                         *)
SectionOf(items, n) ==
    1 + Cardinality({j \in 2..n : PrefixStartsWithNewline(items[j])})

KeysAt(items, positions) == {items[i].key : i \in positions \cap DOMAIN items}
KeySeq(items) == [i \in DOMAIN items |-> items[i].key]
PosOf(items, k) == CHOOSE i \in DOMAIN items : items[i].key = k

(* Rank of a listed key: the index the configuration gives it.             *)
Listed(list, k) == \E i \in DOMAIN list : list[i] = k
Rank(list, k) == CHOOSE i \in DOMAIN list : list[i] = k /\ \A j \in DOMAIN list : j > i => list[j] # k

Precedes(list, x, y) ==
    \/ Listed(list, x) /\ ~Listed(list, y)
    \/ Listed(list, x) /\ Listed(list, y) /\ Rank(list, x) < Rank(list, y)
    \/ ~Listed(list, x) /\ ~Listed(list, y) /\ StrCmp(x, y) = "Less"

----------------------------------------------------------------------------
(* C1: formatting the output of a formatting run again, with the same      *)
(* configuration, returns it unchanged: same key order, key decor, value   *)
(* decor, array layout and scalar text.                                    *)
C1_Idempotence == pc = "reformatted" => output = input

(* A second run on a table that holds a nested table and a multi-line      *)
(* array with an inline table in it.                                       *)
C1_Witness ==
    /\ pc = "reformatted"
    /\ \E i, j \in DOMAIN input.items :
          /\ input.items[i].value.kind = "Table"
          /\ input.items[j].value.kind = "Array"
          /\ input.items[j].value.trailing_comma
          /\ \E k \in DOMAIN input.items[j].value.values :
                input.items[j].value.values[k].kind = "InlineTable"

(* C2: the output holds the sections of the input in their order, each     *)
(* with exactly the keys of the input section; no key is lost, duplicated  *)
(* or moved to another section.                                            *)
C2_SectionIsolation ==
    Ran =>
      LET in == input.items
          out == output.items
      IN  /\ Len(out) = Len(in)
          /\ \A i, j \in DOMAIN out : i # j => out[i].key # out[j].key
          /\ \A i \in DOMAIN in :
                \E j \in DOMAIN out :
                   out[j].key = in[i].key /\ SectionOf(in, j) = SectionOf(in, i)

(* Two sections, a key of the second smaller than a key of the first, and  *)
(* the keys of one section reordered.                                      *)
C2_Witness ==
    /\ pc = "formatted"
    /\ Len(input.items) = 3
    /\ SectionOf(input.items, 3) = 2
    /\ StrCmp(input.items[1].key, input.items[3].key) = "Greater"
    /\ KeySeq(output.items) # KeySeq(input.items)

(* C3: inside a section of the output, listed keys precede unlisted ones,  *)
(* listed keys are in rank order and unlisted keys in lexicographic order; *)
(* with keys = ["b", "a"] a section {z, a, b} comes out as b, a, z.        *)
C3_PriorityOrdering ==
    Ran =>
      LET in == input.items
          out == output.items
      IN  /\ \A p, q \in DOMAIN out :
                p < q /\ SectionOf(in, p) = SectionOf(in, q)
                   => Precedes(config.keys, out[p].key, out[q].key)
          /\ (/\ config.keys = <<KeyB, KeyA>>
              /\ Len(in) = 3
              /\ SectionOf(in, 3) = 1
              /\ KeysAt(in, 1..3) = {KeyZ, KeyA, KeyB})
                => KeySeq(out) = <<KeyB, KeyA, KeyZ>>

C3_Witness ==
    /\ pc = "formatted"
    /\ config.keys = <<KeyB, KeyA>>
    /\ KeySeq(input.items) = <<KeyZ, KeyA, KeyB>>
    /\ SectionOf(input.items, 3) = 1
    /\ KeySeq(output.items) = <<KeyB, KeyA, KeyZ>>

(* C4: the leading prefix of a section (the non-empty prefix of the first  *)
(* entry, or the newline-starting prefix of the entry that opens a later   *)
(* section) is the key prefix of the first key of that section in the      *)
(* output, and the key that carried it no longer carries it unless it is   *)
(* still first.                                                            *)
OpensSection(items, i) ==
    \/ i = 1 /\ HasPrefix(items[i])
    \/ i > 1 /\ PrefixStartsWithNewline(items[i])

C4_CommentAnchoring ==
    Ran =>
      LET in == input.items
          out == output.items
      IN  \A i \in DOMAIN in :
             OpensSection(in, i) =>
                /\ i \in DOMAIN out
                /\ out[i].decor.prefix = in[i].decor.prefix
                /\ \A j \in DOMAIN out :
                      out[j].key = in[i].key /\ j # i
                         => out[j].decor.prefix # in[i].decor.prefix

(* A section led by a comment whose carrier is sorted away from first      *)
(* position.                                                               *)
C4_Witness ==
    /\ pc = "formatted"
    /\ \E i \in DOMAIN input.items :
          /\ OpensSection(input.items, i)
          /\ FindAny(Unwrap(input.items[i].decor.prefix), {35})
          /\ output.items[i].key # input.items[i].key
          /\ output.items[i].decor.prefix = input.items[i].decor.prefix

(* C5: an entry that does not open a section and whose key prefix is a     *)
(* comment has the same key prefix in the output; no comment of the input  *)
(* is absent from the output.                                              *)
IsComment(o) == IsSome(o) /\ StartsWith(Unwrap(o), <<35>>)

C5_CommentsStayAttached ==
    Ran =>
      LET in == input.items
          out == output.items
      IN  /\ \A i \in DOMAIN in :
                i > 1 /\ IsComment(in[i].decor.prefix)
                   => \E j \in DOMAIN out :
                         /\ out[j].key = in[i].key
                         /\ out[j].decor.prefix = in[i].decor.prefix
          /\ \A i \in DOMAIN in :
                (IsSome(in[i].decor.prefix) /\ FindAny(Unwrap(in[i].decor.prefix), {35}))
                   => \E j \in DOMAIN out : out[j].decor.prefix = in[i].decor.prefix

(* C9: every entry whose key prefix contains a blank line (an empty line   *)
(* anywhere in it, also after a comment line) is a section boundary, and   *)
(* no key moves from one side of such an entry to the other.               *)
ContainsBlankLine(s) ==
    \/ StartsWith(s, <<NL>>)
    \/ \E i \in 1..(Len(s) - 1) : s[i] = NL /\ s[i + 1] = NL

C9_BlankLineIsBoundary ==
    Ran =>
      LET in == input.items
          out == output.items
      IN  \A i \in DOMAIN in :
             (i > 1 /\ IsSome(in[i].decor.prefix)
                    /\ ContainsBlankLine(Unwrap(in[i].decor.prefix)))
                => /\ KeysAt(out, 1..(i - 1)) = KeysAt(in, 1..(i - 1))
                   /\ KeysAt(out, i..Len(out)) = KeysAt(in, i..Len(in))

----------------------------------------------------------------------------
(* What identifies an element of an array whatever its decor and quoting:  *)
(* the kind and content of a scalar, the kind and size of a composite.     *)
Core(v) ==
    IF IsScalar(v) THEN <<v.kind, v.value>>
    ELSE IF v.kind = "Array" THEN <<v.kind, Len(v.values)>>
    ELSE <<v.kind, Len(v.items)>>

Cores(values) == [i \in DOMAIN values |-> Core(values[i])]

IsString(v) == v.kind = "String"
NotString(v) == v.kind # "String"

(* The number of times each member of a sequence occurs in it.             *)
Occurrences(s) ==
    [x \in {s[i] : i \in DOMAIN s} |-> Cardinality({i \in DOMAIN s : s[i] = x})]

(* An element with the content of its comments, trimmed as format_array    *)
(* trims it.                                                               *)
Commented(v) ==
    <<Core(v),
      TrimMatches(UnwrapOr(v.decor.prefix, <<>>), ArrayTrimChars),
      TrimMatches(UnwrapOr(v.decor.suffix, <<>>), ArrayTrimChars)>>

(* C6: with sort_string_arrays, the output of format_array is a            *)
(* permutation of the input: the strings first, ascending by content, then *)
(* the other elements in their original relative order; so                 *)
(* ["banana", 3, "apple", true] becomes ["apple", "banana", 3, true].      *)
C6_StringArrayPartition ==
    (Ran /\ config.sort_string_arrays) =>
      LET in == input.values
          out == output.values
      IN  /\ Occurrences(Cores(out)) = Occurrences(Cores(in))
          /\ \A p, q \in DOMAIN out :
                (p < q /\ IsString(out[q]))
                   => /\ IsString(out[p])
                      /\ StrCmp(out[p].value, out[q].value) # "Greater"
          /\ Cores(SelectSeq(out, NotString)) = Cores(SelectSeq(in, NotString))
          /\ Cores(in) = <<Core(Basic(Banana)), Core(Three), Core(Basic(Apple)), Core(True)>>
                => Cores(out) = <<Core(Basic(Apple)), Core(Basic(Banana)), Core(Three),
                                  Core(True)>>

C6_Witness ==
    /\ pc = "formatted"
    /\ config.sort_string_arrays
    /\ Cores(input.values) =
          <<Core(Basic(Banana)), Core(Three), Core(Basic(Apple)), Core(True)>>
    /\ Cores(output.values) =
          <<Core(Basic(Apple)), Core(Basic(Banana)), Core(Three), Core(True)>>

(* C7: format_value rewrites a scalar delimited by single quotes to the    *)
(* same content delimited by double quotes iff its text does not start     *)
(* with two single quotes and holds neither a backslash nor a double       *)
(* quote; every other scalar keeps its text.                               *)
C7_QuoteNormalization ==
    Ran =>
      LET t == input.repr
          converts == /\ StartsWith(t, <<SQ>>) /\ EndsWith(t, <<SQ>>) /\ Len(t) >= 2
                      /\ ~StartsWith(t, <<SQ, SQ>>)
                      /\ ~FindAny(t, {BS, DQ})
      IN  IF converts
          THEN /\ output.repr = <<DQ>> \o SubSeq(t, 2, Len(t) - 1) \o <<DQ>>
               /\ output.kind = "String"
               /\ output.value = input.value
          ELSE output.repr = t

C7_Witness ==
    /\ pc = "formatted"
    /\ input.repr = <<SQ, 97, 97, SQ>>
    /\ output.repr = <<DQ, 97, 97, DQ>>

(* C8: format_array keeps the trailing trivia of an array whose trailing   *)
(* trivia begins with a newline, sets its trailing comma, and leaves on    *)
(* every element the trimmed content of its prefix and suffix, also when   *)
(* the elements are reordered; any other array gets empty trailing trivia  *)
(* and no trailing comma.                                                  *)
C8_MultilineRoundTrip ==
    Ran =>
      IF StartsWith(input.trailing, <<NL>>)
      THEN /\ output.trailing = input.trailing
           /\ output.trailing_comma
           /\ Occurrences([i \in DOMAIN output.values |-> Commented(output.values[i])])
                 = Occurrences([i \in DOMAIN input.values |-> Commented(input.values[i])])
      ELSE /\ output.trailing = <<>>
           /\ ~output.trailing_comma

(* A multi-line array without trailing comma whose commented element is    *)
(* moved by the sort.                                                      *)
C8_Witness ==
    /\ pc = "formatted"
    /\ config.sort_string_arrays
    /\ StartsWith(input.trailing, <<NL>>)
    /\ ~input.trailing_comma
    /\ Len(input.values) >= 2
    /\ Commented(input.values[2]) = <<Core(Literal(Apple)), <<35, 99>>, <<>>>>
    /\ Commented(output.values[1]) = <<Core(Literal(Apple)), <<35, 99>>, <<>>>>
    /\ Core(input.values[1]) = Core(Basic(Banana))

(* C10: format_inline_table outputs the keys of the input as one section   *)
(* ordered by inline_keys alone, every key decor one space before and one  *)
(* after, the last value formatted with last = true and the others with    *)
(* last = false.                                                           *)
C10_InlineTable ==
    Ran =>
      LET in == input.items
          out == output.items
      IN  /\ Len(out) = Len(in)
          /\ KeysAt(out, DOMAIN out) = KeysAt(in, DOMAIN in)
          /\ \A p, q \in DOMAIN out :
                p < q => Precedes(config.inline_keys, out[p].key, out[q].key)
          /\ \A j \in DOMAIN out :
                /\ out[j].decor = NewDecor(<<SP>>, <<SP>>)
                /\ out[j].value =
                      format_value(FromConfig(config), in[PosOf(in, out[j].key)].value,
                                   j = Len(out))

(* keys and inline_keys disagree on the order of the three keys.           *)
C10_Witness ==
    /\ pc = "formatted"
    /\ config.keys = <<KeyB, KeyA>>
    /\ config.inline_keys = <<KeyZ, KeyB, KeyZ>>
    /\ KeySeq(input.items) = <<KeyA, KeyZ, KeyB>>
    /\ KeySeq(output.items) = <<KeyB, KeyZ, KeyA>>
    /\ output.items[1].value.decor.suffix = Some(<<>>)
    /\ output.items[3].value.decor.suffix = Some(<<SP>>)

====
